---- MODULE Spec2Model ----
(***************************************************************************)
(* Model of yuanjing-core's evidence ledger: EvidenceStore                 *)
(* (src/src/mmr_store.rs) and the two HTTP handlers that share it behind   *)
(* a tokio Mutex (src/src/api.rs).                                         *)
(* SpecRestart adds the process being stopped and started again, SpecMain  *)
(* is the command-line binary (src/src/main.rs), one record per run.       *)
(*                                                                         *)
(* EvidenceStore drives ckb_merkle_mountain_range::MMR.  The MMR handle    *)
(* built by MMR::new(mmr_size, &store) owns an MMRBatch: push() stages the *)
(* new nodes in that batch, get_root()/gen_proof() read the batch first    *)
(* and the store second, and only MMR::commit() copies the batch into the  *)
(* store.  The operators of the first part follow those library routines   *)
(* as EvidenceStore calls them.                                            *)
(*                                                                         *)
(* A 32-byte digest is modelled as a sequence of naturals in prefix form:  *)
(* a leaf digest is <<1>> \o payload, a merged digest <<0>> \o l \o r, so  *)
(* that distinct inputs give distinct digests (collision resistance).      *)
(***************************************************************************)
EXTENDS Integers, Sequences, FiniteSets, TLC

\* ------------------------------------------------------------ bounds
NumReq == 2          \* request slots served concurrently
MaxRequests == 2     \* requests accepted over a run
MaxTimestamp == 0    \* timestamps 0..MaxTimestamp
MaxPos == 2          \* positions an audit request may name: 0..MaxPos

Req == 1..NumReq
NoOwner == 0

\* ------------------------------------------------------------ evidence
\* The fields of Evidence that differ from record to record here; the others
\* are held fixed.  confidence is an f32: 0 stands for a finite value, 1 for
\* +infinity, 2 for -infinity.
Confidence == {0, 1, 2}
IsFinite(c) == c = 0

Evidence == [verdict : BOOLEAN, confidence : Confidence, timestamp : 0..MaxTimestamp]

\* serde_json's serialize_f32: a NaN or an infinity is written as null (0
\* here), a finite value as its shortest decimal form
SerializeF32(c) == IF IsFinite(c) THEN c + 1 ELSE 0

\* serde_json::to_vec(evidence): the fields in declaration order.
ToVec(e) == << IF e.verdict THEN 1 ELSE 0, SerializeF32(e.confidence), e.timestamp >>

\* The records submit_evidence builds: verdict from the request, timestamp
\* from the clock; the request's confidence is put in as text
\* (req.confidence.to_string()), which is never written as null.
Requested == {e \in Evidence : IsFinite(e.confidence)}

\* blake3::hash(&payload)
Blake3Hash(payload) == <<1>> \o payload

\* MergeBlake3::merge: Hash(lhs || rhs)
Merge(lhs, rhs) == <<0>> \o lhs \o rhs

\* Merge::merge_peaks, the trait's default (MergeBlake3 does not override it)
MergePeaks(lhs, rhs) == Merge(lhs, rhs)

\* hex::encode of one digest: two nibbles per byte
HexEncode(h) == [k \in 1..(2 * Len(h)) |->
                   IF k % 2 = 1 THEN h[(k + 1) \div 2] \div 16
                                ELSE h[(k + 1) \div 2] % 16]

\* ------------------------------------------------------------ options
None == [some |-> FALSE, val |-> <<>>]
Some(v) == [some |-> TRUE, val |-> v]

\* MemStore::get_elem: the BTreeMap lookup
StoreGetElem(st, pos) == IF pos \in DOMAIN st THEN Some(st[pos]) ELSE None

\* MMR::new(mmr_size, &store): a handle with an empty batch
MMRNew(size) == [mmr_size |-> size, batch |-> <<>>]

\* MMRBatch::get_elem: newest batch entry first, then the store
RECURSIVE BatchScan(_, _, _, _)
BatchScan(batch, i, st, pos) ==
    IF i = 0 THEN StoreGetElem(st, pos)
    ELSE LET start == batch[i][1]
             elems == batch[i][2]
         IN IF pos < start THEN BatchScan(batch, i - 1, st, pos)
            ELSE IF pos < start + Len(elems) THEN Some(elems[pos - start + 1])
            ELSE StoreGetElem(st, pos)

BatchGetElem(mmr, st, pos) == BatchScan(mmr.batch, Len(mmr.batch), st, pos)

\* ------------------------------------------------------------ helpers
\* u64::MAX >> n.leading_zeros(): the all-ones number as long as n (n >= 1)
RECURSIVE AllOnesUpTo(_, _)
AllOnesUpTo(n, m) == IF m >= n THEN m ELSE AllOnesUpTo(n, 2 * m + 1)

RECURSIVE PeakMapLoop(_, _, _)
PeakMapLoop(pos, peak_size, peak_map) ==
    IF peak_size = 0 THEN peak_map
    ELSE IF pos >= peak_size
         THEN PeakMapLoop(pos - peak_size, peak_size \div 2, 2 * peak_map + 1)
         ELSE PeakMapLoop(pos, peak_size \div 2, 2 * peak_map)

\* helper::get_peak_map: bit h set iff a peak of height h exists
GetPeakMap(mmr_size) ==
    IF mmr_size = 0 THEN 0 ELSE PeakMapLoop(mmr_size, AllOnesUpTo(mmr_size, 1), 0)

RECURSIVE PeaksLoop(_, _, _, _)
PeaksLoop(pos, peak_size, peaks_sum, peaks) ==
    IF peak_size = 0 THEN peaks
    ELSE IF pos >= peak_size
         THEN PeaksLoop(pos - peak_size, peak_size \div 2, peaks_sum + peak_size,
                        Append(peaks, peaks_sum + peak_size - 1))
         ELSE PeaksLoop(pos, peak_size \div 2, peaks_sum, peaks)

\* helper::get_peaks: peak positions, leftmost (tallest) first
GetPeaks(mmr_size) ==
    IF mmr_size = 0 THEN <<>> ELSE PeaksLoop(mmr_size, AllOnesUpTo(mmr_size, 1), 0, <<>>)

\* all_ones / jump_left / bit length, as used by pos_height_in_tree
RECURSIVE BitLength(_)
BitLength(n) == IF n = 0 THEN 0 ELSE 1 + BitLength(n \div 2)

Pow2(k) == 2 ^ k

AllOnes(n) == n # 0 /\ n + 1 = Pow2(BitLength(n))

RECURSIVE JumpLeftLoop(_)
JumpLeftLoop(pos) ==
    IF AllOnes(pos) THEN pos
    ELSE JumpLeftLoop(pos - (Pow2(BitLength(pos) - 1) - 1))

\* helper::pos_height_in_tree
PosHeightInTree(pos) == BitLength(JumpLeftLoop(pos + 1)) - 1

\* helper::parent_offset, helper::sibling_offset
ParentOffset(height) == 2 * Pow2(height)
SiblingOffset(height) == 2 * Pow2(height) - 1

\* ------------------------------------------------------------ MMR::push
\* MMR::find_elem: a node of this push, else the batch, else the store
FindElem(mmr, st, pos, hashes) ==
    IF pos >= mmr.mmr_size /\ pos - mmr.mmr_size < Len(hashes)
    THEN Some(hashes[pos - mmr.mmr_size + 1])
    ELSE BatchGetElem(mmr, st, pos)

\* the carry loop of push: one merge per trailing set bit of the peak map;
\* a missing left sibling is Error::InconsistentStore
RECURSIVE PushLoop(_, _, _, _, _, _)
PushLoop(mmr, st, peak_map, elems, pos, peak) ==
    IF (peak_map \div peak) % 2 = 0
    THEN [ok |-> TRUE, elems |-> elems, pos |-> pos]
    ELSE LET peak2 == 2 * peak
             pos2 == pos + 1
             left_elem == FindElem(mmr, st, pos2 - peak2, elems)
         IN IF ~left_elem.some
            THEN [ok |-> FALSE, elems |-> elems, pos |-> pos]
            ELSE PushLoop(mmr, st, peak_map,
                          Append(elems, Merge(left_elem.val, elems[Len(elems)])),
                          pos2, peak2)

\* variant: push returns the new size instead of the leaf's position
PushReturnsSize(mmr, st, elem) ==
    [ok |-> TRUE, pos |-> mmr.mmr_size + 1,
     mmr |-> [mmr_size |-> mmr.mmr_size + 1,
              batch |-> Append(mmr.batch, <<mmr.mmr_size, <<elem>> >>)]]

\* variant: the carry loop runs once whatever the peak map says
PushCarriesOnce(mmr, st, elem) ==
    [ok |-> TRUE, pos |-> mmr.mmr_size,
     mmr |-> [mmr_size |-> mmr.mmr_size + 2,
              batch |-> Append(mmr.batch, <<mmr.mmr_size, <<elem, Merge(elem, elem)>> >>)]]

\* MMR::push(elem): stages the leaf and its parents in the batch
Push(mmr, st, elem) ==
    LET elem_pos == mmr.mmr_size
        r == PushLoop(mmr, st, GetPeakMap(mmr.mmr_size), <<elem>>, mmr.mmr_size, 1)
    IN IF ~r.ok
       THEN [ok |-> FALSE, pos |-> elem_pos, mmr |-> mmr]
       ELSE [ok |-> TRUE, pos |-> elem_pos,
             mmr |-> [mmr_size |-> r.pos + 1,
                      batch |-> Append(mmr.batch, <<elem_pos, r.elems>>)]]

\* ------------------------------------------------------------ MMR::get_root
\* MMR::bag_rhs_peaks: pops the two rightmost, pushes merge_peaks(right, left)
RECURSIVE BagRhsPeaks(_)
BagRhsPeaks(rhs_peaks) ==
    IF Len(rhs_peaks) <= 1 THEN rhs_peaks
    ELSE LET n == Len(rhs_peaks)
             right_peak == rhs_peaks[n]
             left_peak == rhs_peaks[n - 1]
         IN BagRhsPeaks(Append(SubSeq(rhs_peaks, 1, n - 2),
                               MergePeaks(right_peak, left_peak)))

\* variant: the root is computed by a fresh handle, which sees the store only
GetRootFromStore(mmr, st) ==
    IF mmr.mmr_size = 0 THEN None ELSE StoreGetElem(st, 0)

\* MMR::get_root
GetRoot(mmr, st) ==
    IF mmr.mmr_size = 0 THEN None
    ELSE IF mmr.mmr_size = 1 THEN BatchGetElem(mmr, st, 0)
    ELSE LET peaks == GetPeaks(mmr.mmr_size)
             got == [i \in 1..Len(peaks) |-> BatchGetElem(mmr, st, peaks[i])]
         IN IF \E i \in 1..Len(peaks) : ~got[i].some THEN None
            ELSE Some(BagRhsPeaks([i \in 1..Len(peaks) |-> got[i].val])[1])

\* ------------------------------------------------------------ MMR::gen_proof
\* sibling and parent of pos at the given height
SibPos(pos, height) ==
    IF PosHeightInTree(pos + 1) > height THEN pos - SiblingOffset(height)
                                        ELSE pos + SiblingOffset(height)
ParentPos(pos, height) ==
    IF PosHeightInTree(pos + 1) > height THEN pos + 1
                                        ELSE pos + ParentOffset(height)

\* the queue loop of MMR::gen_proof_for_peak; queue entries are <<pos, height>>
RECURSIVE ProofQueueLoop(_, _, _, _, _)
ProofQueueLoop(mmr, st, proof, queue, peak_pos) ==
    IF queue = <<>> THEN [ok |-> TRUE, proof |-> proof]
    ELSE LET pos == queue[1][1]
             height == queue[1][2]
             rest == Tail(queue)
         IN IF pos = peak_pos
            THEN [ok |-> rest = <<>>, proof |-> proof]
            ELSE LET sib_pos == SibPos(pos, height)
                     parent_pos == ParentPos(pos, height)
                     drop == rest # <<>> /\ rest[1][1] = sib_pos
                     sib == BatchGetElem(mmr, st, sib_pos)
                     rest2 == IF drop THEN Tail(rest) ELSE rest
                     queue2 == IF parent_pos < peak_pos
                               THEN Append(rest2, <<parent_pos, height + 1>>)
                               ELSE rest2
                 IN IF ~drop /\ ~sib.some
                    THEN [ok |-> FALSE, proof |-> proof]
                    ELSE ProofQueueLoop(mmr, st,
                                        IF drop THEN proof ELSE Append(proof, sib.val),
                                        queue2, peak_pos)

\* MMR::gen_proof_for_peak
GenProofForPeak(mmr, st, proof, pos_list, peak_pos) ==
    IF pos_list = <<peak_pos>> THEN [ok |-> TRUE, proof |-> proof]
    ELSE IF pos_list = <<>>
    THEN LET e == BatchGetElem(mmr, st, peak_pos)
         IN IF e.some THEN [ok |-> TRUE, proof |-> Append(proof, e.val)]
                      ELSE [ok |-> FALSE, proof |-> proof]
    ELSE ProofQueueLoop(mmr, st, proof,
                        [i \in 1..Len(pos_list) |-> <<pos_list[i], 0>>], peak_pos)

\* pos_list.sort_unstable(); pos_list.dedup()
RECURSIVE SortedSeq(_)
SortedSeq(S) ==
    IF S = {} THEN <<>>
    ELSE LET m == CHOOSE x \in S : \A y \in S : x <= y
         IN <<m>> \o SortedSeq(S \ {m})

SortDedup(pos_list) == SortedSeq({pos_list[i] : i \in 1..Len(pos_list)})

\* take_while_vec(v, |pos| pos <= peak_pos): how many leading entries it takes
RECURSIVE TakeCount(_, _)
TakeCount(v, peak_pos) ==
    IF v = <<>> \/ v[1] > peak_pos THEN 0 ELSE 1 + TakeCount(Tail(v), peak_pos)

\* the loop of gen_proof over the peaks
RECURSIVE GenProofPeaks(_, _, _, _, _, _)
GenProofPeaks(mmr, st, peaks, pos_list, proof, bagging_track) ==
    IF peaks = <<>>
    THEN [ok |-> TRUE, proof |-> proof, rest |-> pos_list, track |-> bagging_track]
    ELSE LET k == TakeCount(pos_list, peaks[1])
             mine == SubSeq(pos_list, 1, k)
             r == GenProofForPeak(mmr, st, proof, mine, peaks[1])
         IN IF ~r.ok
            THEN [ok |-> FALSE, proof |-> proof, rest |-> pos_list, track |-> 0]
            ELSE GenProofPeaks(mmr, st, Tail(peaks),
                               SubSeq(pos_list, k + 1, Len(pos_list)), r.proof,
                               IF k = 0 THEN bagging_track + 1 ELSE 0)

\* MMR::gen_proof(pos_list): the proof items, or an error
GenProof(mmr, st, pos_list) ==
    IF pos_list = <<>> THEN [ok |-> FALSE, items |-> <<>>]
    ELSE IF mmr.mmr_size = 1 /\ pos_list = <<0>> THEN [ok |-> TRUE, items |-> <<>>]
    ELSE IF \E i \in 1..Len(pos_list) : PosHeightInTree(pos_list[i]) > 0
    THEN [ok |-> FALSE, items |-> <<>>]
    ELSE LET r == GenProofPeaks(mmr, st, GetPeaks(mmr.mmr_size),
                                SortDedup(pos_list), <<>>, 0)
         IN IF ~r.ok \/ r.rest # <<>> THEN [ok |-> FALSE, items |-> <<>>]
            ELSE IF r.track > 1
            THEN LET n == Len(r.proof)
                 IN [ok |-> TRUE,
                     items |-> Append(SubSeq(r.proof, 1, n - r.track),
                                      BagRhsPeaks(SubSeq(r.proof, n - r.track + 1, n))[1])]
            ELSE [ok |-> TRUE, items |-> r.proof]

\* ------------------------------------------------------------ verifyProof
\* The repository leaves verification to the client; this is the spec's
\* verifyProof (section 4.3) in the form of the library's MerkleProof::verify:
\* rebuild the peak holding each leaf from the proof's siblings, take the other
\* peaks from the proof, bag them by the rule of get_root, compare with root.
\* Queue entries are <<pos, item, height>>.
RECURSIVE CalculatePeakRoot(_, _, _)
CalculatePeakRoot(queue, peak_pos, proof) ==
    IF queue = <<>> THEN [ok |-> FALSE, root |-> <<>>, proof |-> proof]
    ELSE LET pos == queue[1][1]
             item == queue[1][2]
             height == queue[1][3]
             rest == Tail(queue)
         IN IF pos = peak_pos THEN [ok |-> TRUE, root |-> item, proof |-> proof]
            ELSE LET is_right == PosHeightInTree(pos + 1) > height
                     sib_pos == SibPos(pos, height)
                     parent_pos == ParentPos(pos, height)
                     queued == rest # <<>> /\ rest[1][1] = sib_pos
                 IN IF ~queued /\ proof = <<>>
                    THEN [ok |-> FALSE, root |-> <<>>, proof |-> proof]
                    ELSE LET sibling_item == IF queued THEN rest[1][2] ELSE proof[1]
                             rest2 == IF queued THEN Tail(rest) ELSE rest
                             proof2 == IF queued THEN proof ELSE Tail(proof)
                             parent_item == IF is_right THEN Merge(sibling_item, item)
                                                        ELSE Merge(item, sibling_item)
                         IN IF parent_pos < peak_pos
                            THEN CalculatePeakRoot(
                                     Append(rest2, <<parent_pos, parent_item, height + 1>>),
                                     peak_pos, proof2)
                            ELSE [ok |-> TRUE, root |-> parent_item, proof |-> proof2]

\* the loop of calculate_peaks_hashes over the peaks; leaves are <<pos, item>>
RECURSIVE CalculatePeaksLoop(_, _, _, _)
CalculatePeaksLoop(peaks, leaves, proof, hashes) ==
    IF peaks = <<>> THEN [ok |-> TRUE, leaves |-> leaves, proof |-> proof, hashes |-> hashes]
    ELSE LET peak_pos == peaks[1]
             k == TakeCount([i \in 1..Len(leaves) |-> leaves[i][1]], peak_pos)
             mine == SubSeq(leaves, 1, k)
             left == SubSeq(leaves, k + 1, Len(leaves))
         IN IF k = 1 /\ mine[1][1] = peak_pos
            THEN CalculatePeaksLoop(Tail(peaks), left, proof, Append(hashes, mine[1][2]))
            ELSE IF k = 0
            THEN IF proof = <<>>
                 THEN [ok |-> TRUE, leaves |-> left, proof |-> proof, hashes |-> hashes]
                 ELSE CalculatePeaksLoop(Tail(peaks), left, Tail(proof),
                                         Append(hashes, proof[1]))
            ELSE LET pr == CalculatePeakRoot(
                               [i \in 1..k |-> <<mine[i][1], mine[i][2], 0>>],
                               peak_pos, proof)
                 IN IF ~pr.ok
                    THEN [ok |-> FALSE, leaves |-> left, proof |-> proof, hashes |-> hashes]
                    ELSE CalculatePeaksLoop(Tail(peaks), left, pr.proof,
                                            Append(hashes, pr.root))

\* calculate_root: None stands for Error::CorruptedProof
CalculateRoot(leaves, size, proof) ==
    IF size = 1 /\ Len(leaves) = 1 /\ leaves[1][1] = 0 THEN Some(leaves[1][2])
    ELSE LET r == CalculatePeaksLoop(GetPeaks(size), leaves, proof, <<>>)
         IN IF ~r.ok \/ r.leaves # <<>> \/ Len(r.proof) > 1 THEN None
            ELSE LET all == r.hashes \o r.proof
                 IN IF all = <<>> THEN None ELSE Some(BagRhsPeaks(all)[1])

\* verifyProof(proof, leafHash, position, expectedRoot) for a ledger of `size`
VerifyProof(proof, size, leaf_hash, pos, root) ==
    LET c == CalculateRoot(<< <<pos, leaf_hash>> >>, size, proof)
    IN c.some /\ c.val = root

\* ------------------------------------------------------------ state
VARIABLES
    store,      \* EvidenceStore.store: MemStore, position -> digest
    mmr_size,   \* EvidenceStore.mmr_size
    owner,      \* holder of AppState.store's Mutex, NoOwner when free
    pc,         \* where each request slot's handler stands
    req,        \* the slot's request: the evidence it builds, the audited pos
    loc,        \* the handler's locals inside append / get_proof
    result,     \* the slot's HTTP response
    started,    \* requests accepted so far
    log,        \* history: what each append call returned, in lock order
    snapshot    \* history: size and store as the last append call left them

vars == <<store, mmr_size, owner, pc, req, loc, result, started, log, snapshot>>

EmptyStore == [p \in {} |-> <<>>]

NoReq == [kind |-> "none",
          ev |-> [verdict |-> FALSE, confidence |-> 0, timestamp |-> 0], pos |-> 0]
NoLoc == [mmr |-> MMRNew(0), pos |-> 0, pre |-> 0, payload |-> <<>>]
NoResult == [status |-> 0, root_hash |-> <<>>, leaf_pos |-> 0, proof_hex |-> <<>>]

\* an error response: (StatusCode, String)
ErrorResponse(code) == [NoResult EXCEPT !.status = code]

\* EvidenceStore::new and the idle server
Init ==
    /\ store = EmptyStore
    /\ mmr_size = 0
    /\ owner = NoOwner
    /\ pc = [r \in Req |-> "idle"]
    /\ req = [r \in Req |-> NoReq]
    /\ loc = [r \in Req |-> NoLoc]
    /\ result = [r \in Req |-> NoResult]
    /\ started = 0
    /\ log = <<>>
    /\ snapshot = [size |-> 0, store |-> EmptyStore]

\* variant: the lock admits a task while another holds the guard
LockFreeAlways == TRUE

\* a slot takes the next request once its previous response is sent; the
\* server hands a request to the first slot that is free
Free(r) == pc[r] \in {"idle", "done"}
Accepts(r) ==
    /\ Free(r)
    /\ \A q \in Req : q < r => ~Free(q)
    /\ started < MaxRequests

\* state.store.lock().await returns once no other task holds the guard
LockFree == owner = NoOwner

\* what one append call returned, for the history
LogEntry(r, ok, step, pos, root, nodes, post) ==
    [ev |-> req[r].ev, leaf |-> Blake3Hash(ToVec(req[r].ev)),
     pre |-> loc[r].pre, post |-> post,
     ok |-> ok, step |-> step, pos |-> pos, root |-> root, nodes |-> nodes]

\* variant: the error path returns with the guard still held
AppendFailsKeepsGuard(r, step) ==
    /\ result' = [result EXCEPT ![r] = ErrorResponse(500)]
    /\ log' = Append(log, LogEntry(r, FALSE, step, 0, <<>>, {}, mmr_size))
    /\ snapshot' = [size |-> mmr_size, store |-> store]
    /\ loc' = [loc EXCEPT ![r] = NoLoc]
    /\ owner' = owner
    /\ pc' = [pc EXCEPT ![r] = "done"]

\* append returned Err: the handler maps it to 500 and drops the guard
AppendFails(r, step) ==
    /\ result' = [result EXCEPT ![r] = ErrorResponse(500)]
    /\ log' = Append(log, LogEntry(r, FALSE, step, 0, <<>>, {}, mmr_size))
    /\ snapshot' = [size |-> mmr_size, store |-> store]
    /\ loc' = [loc EXCEPT ![r] = NoLoc]
    /\ owner' = NoOwner
    /\ pc' = [pc EXCEPT ![r] = "done"]

\* ------------------------------------------------------------ POST /prove
\* a request arrives at submit_evidence
StartSubmit(r) ==
    /\ Accepts(r)
    /\ \E e \in Requested : req' = [req EXCEPT ![r] = [NoReq EXCEPT !.kind = "submit", !.ev = e]]
    /\ started' = started + 1
    /\ pc' = [pc EXCEPT ![r] = "fingerprint"]
    /\ loc' = [loc EXCEPT ![r] = NoLoc]
    /\ result' = [result EXCEPT ![r] = NoResult]
    /\ UNCHANGED <<store, mmr_size, owner, log, snapshot>>

\* variant: the handler takes the ledger's guard on entry, before fingerprinting
FingerprintLocked(r) ==
    /\ pc[r] = "fingerprint"
    /\ owner = NoOwner
    /\ \E fp_ok \in BOOLEAN :
         IF fp_ok
         THEN /\ pc' = [pc EXCEPT ![r] = "sign"]
              /\ owner' = r
              /\ UNCHANGED result
         ELSE /\ pc' = [pc EXCEPT ![r] = "done"]
              /\ owner' = NoOwner
              /\ result' = [result EXCEPT ![r] = ErrorResponse(500)]
    /\ UNCHANGED <<store, mmr_size, req, loc, started, log, snapshot>>

\* spawn_blocking(generate_fingerprints): a missing or undecodable image,
\* or a join error, ends the request with 500
Fingerprint(r) ==
    /\ pc[r] = "fingerprint"
    /\ \E fp_ok \in BOOLEAN :
         IF fp_ok
         THEN /\ pc' = [pc EXCEPT ![r] = "sign"]
              /\ UNCHANGED result
         ELSE /\ pc' = [pc EXCEPT ![r] = "done"]
              /\ result' = [result EXCEPT ![r] = ErrorResponse(500)]
    /\ UNCHANGED <<store, mmr_size, owner, req, loc, started, log, snapshot>>

\* state.signer.sign(&evidence)
Sign(r) ==
    /\ pc[r] = "sign"
    /\ \E sign_ok \in BOOLEAN :
         IF sign_ok
         THEN /\ pc' = [pc EXCEPT ![r] = "lock"]
              /\ UNCHANGED result
         ELSE /\ pc' = [pc EXCEPT ![r] = "done"]
              /\ result' = [result EXCEPT ![r] = ErrorResponse(500)]
    /\ UNCHANGED <<store, mmr_size, owner, req, loc, started, log, snapshot>>

\* let mut store = state.store.lock().await
SubmitLock(r) ==
    /\ pc[r] = "lock"
    /\ LockFree
    /\ owner' = r
    /\ pc' = [pc EXCEPT ![r] = "append_push"]
    /\ loc' = [loc EXCEPT ![r] = [NoLoc EXCEPT !.pre = mmr_size]]
    /\ UNCHANGED <<store, mmr_size, req, result, started, log, snapshot>>

\* the handle and the push of append: MMR::new(self.mmr_size, &self.store),
\* then mmr.push(leaf_hash)?
AppendNewPush(size, st, leaf_hash) == Push(MMRNew(size), st, leaf_hash)

\* append, lines 85-99: serialize, hash, MMR::new, push
AppendPush(r) ==
    /\ pc[r] = "append_push"
    /\ \E ser_ok \in BOOLEAN :
         IF ~ser_ok
         THEN AppendFails(r, "serialize")
         ELSE LET leaf_hash == Blake3Hash(ToVec(req[r].ev))
                  pushed == AppendNewPush(mmr_size, store, leaf_hash)
              IN IF ~pushed.ok
                 THEN AppendFails(r, "push")
                 ELSE /\ loc' = [loc EXCEPT ![r].mmr = pushed.mmr,
                                          ![r].pos = pushed.pos]
                      /\ pc' = [pc EXCEPT ![r] = "append_size"]
                      /\ UNCHANGED <<owner, result, log, snapshot>>
    /\ UNCHANGED <<store, mmr_size, req, started>>

\* variant: append returns without storing the handle's size
AppendSizeSkipped(r) ==
    /\ pc[r] = "append_size"
    /\ pc' = [pc EXCEPT ![r] = "append_root"]
    /\ UNCHANGED <<store, mmr_size, owner, req, loc, result, started, log, snapshot>>

\* append, line 102: self.mmr_size = mmr.mmr_size()
AppendSize(r) ==
    /\ pc[r] = "append_size"
    /\ mmr_size' = loc[r].mmr.mmr_size
    /\ pc' = [pc EXCEPT ![r] = "append_root"]
    /\ UNCHANGED <<store, owner, req, loc, result, started, log, snapshot>>

\* the positions the handle's batch holds
BatchPositions(mmr) ==
    UNION { mmr.batch[i][1] .. (mmr.batch[i][1] + Len(mmr.batch[i][2]) - 1) :
            i \in 1..Len(mmr.batch) }

\* append, lines 106-108: get_root, return (root, pos); the handle and its
\* batch are dropped; the handler drops the guard and builds the receipt
AppendRoot(r) ==
    /\ pc[r] = "append_root"
    /\ LET root == GetRoot(loc[r].mmr, store)
       IN IF ~root.some
          THEN AppendFails(r, "get_root")
          ELSE /\ result' = [result EXCEPT ![r] =
                               [status |-> 200, root_hash |-> HexEncode(root.val),
                                leaf_pos |-> loc[r].pos, proof_hex |-> <<>>]]
               /\ log' = Append(log, LogEntry(r, TRUE, "ok", loc[r].pos, root.val,
                                              BatchPositions(loc[r].mmr), mmr_size))
               /\ snapshot' = [size |-> mmr_size, store |-> store]
               /\ loc' = [loc EXCEPT ![r] = NoLoc]
               /\ owner' = NoOwner
               /\ pc' = [pc EXCEPT ![r] = "done"]
    /\ UNCHANGED <<store, mmr_size, req, started>>

\* append, lines 95-108, as one call on a ledger (size, st) for a leaf digest:
\* what it returns and the size it leaves; the store is not written
AppendLeaf(size, st, leaf_hash) ==
    LET pushed == AppendNewPush(size, st, leaf_hash)
    IN IF ~pushed.ok
       THEN [ok |-> FALSE, root |-> <<>>, pos |-> 0, size |-> size]
       ELSE LET root == GetRoot(pushed.mmr, st)
            IN IF ~root.some
               THEN [ok |-> FALSE, root |-> <<>>, pos |-> 0, size |-> pushed.mmr.mmr_size]
               ELSE [ok |-> TRUE, root |-> root.val, pos |-> pushed.pos,
                     size |-> pushed.mmr.mmr_size]

\* EvidenceStore::append(evidence) as one call
AppendCall(size, st, e) == AppendLeaf(size, st, Blake3Hash(ToVec(e)))

\* ------------------------------------------------------------ GET /audit/{pos}
StartAudit(r) ==
    /\ Accepts(r)
    /\ \E p \in 0..MaxPos : req' = [req EXCEPT ![r] = [NoReq EXCEPT !.kind = "audit", !.pos = p]]
    /\ started' = started + 1
    /\ pc' = [pc EXCEPT ![r] = "audit_lock"]
    /\ loc' = [loc EXCEPT ![r] = NoLoc]
    /\ result' = [result EXCEPT ![r] = NoResult]
    /\ UNCHANGED <<store, mmr_size, owner, log, snapshot>>

\* variant: the audit handler reads the ledger without taking the lock
AuditLockNoWait(r) ==
    /\ pc[r] = "audit_lock"
    /\ pc' = [pc EXCEPT ![r] = "audit_new"]
    /\ UNCHANGED <<store, mmr_size, owner, req, loc, result, started, log, snapshot>>

\* variant: a read lock, shared among readers and excluded by appends only
AuditLockShared(r) ==
    /\ pc[r] = "audit_lock"
    /\ \A q \in Req : pc[q] \notin {"append_push", "append_size", "append_root"}
    /\ owner' = r
    /\ pc' = [pc EXCEPT ![r] = "audit_new"]
    /\ UNCHANGED <<store, mmr_size, req, loc, result, started, log, snapshot>>

\* let store = state.store.lock().await
AuditLock(r) ==
    /\ pc[r] = "audit_lock"
    /\ LockFree
    /\ owner' = r
    /\ pc' = [pc EXCEPT ![r] = "audit_new"]
    /\ UNCHANGED <<store, mmr_size, req, loc, result, started, log, snapshot>>

\* get_proof, line 133: MMR::new(self.mmr_size, &self.store)
AuditNew(r) ==
    /\ pc[r] = "audit_new"
    /\ loc' = [loc EXCEPT ![r] = [NoLoc EXCEPT !.mmr = MMRNew(mmr_size)]]
    /\ pc' = [pc EXCEPT ![r] = "audit_gen"]
    /\ UNCHANGED <<store, mmr_size, owner, req, result, started, log, snapshot>>

\* variant: a gen_proof error is swallowed and an empty proof returned
GetProofUnchecked(size, st, pos_list) ==
    [ok |-> TRUE, items |-> GenProof(MMRNew(size), st, pos_list).items]

\* EvidenceStore::get_proof(pos_list) on a ledger at rest
GetProof(size, st, pos_list) == GenProof(MMRNew(size), st, pos_list)

\* variant: a failed proof request resets the ledger it could not read
AuditGenProofResets(r) ==
    /\ pc[r] = "audit_gen"
    /\ LET proof == GetProof(loc[r].mmr.mmr_size, store, <<req[r].pos>>)
       IN /\ result' = [result EXCEPT ![r] =
               IF ~proof.ok THEN ErrorResponse(400)
               ELSE [status |-> 200, root_hash |-> <<>>, leaf_pos |-> req[r].pos,
                     proof_hex |-> [i \in 1..Len(proof.items) |->
                                       HexEncode(proof.items[i])]]]
          /\ mmr_size' = IF proof.ok THEN mmr_size ELSE 0
    /\ loc' = [loc EXCEPT ![r] = NoLoc]
    /\ owner' = NoOwner
    /\ pc' = [pc EXCEPT ![r] = "done"]
    /\ UNCHANGED <<store, req, started, log, snapshot>>

\* get_proof, line 134, and the rest of get_audit_proof: 400 on an error,
\* else the proof items in hex; the guard is dropped on return
AuditGenProof(r) ==
    /\ pc[r] = "audit_gen"
    /\ LET proof == GetProof(loc[r].mmr.mmr_size, store, <<req[r].pos>>)
       IN result' = [result EXCEPT ![r] =
            IF ~proof.ok THEN ErrorResponse(400)
            ELSE [status |-> 200, root_hash |-> <<>>, leaf_pos |-> req[r].pos,
                  proof_hex |-> [i \in 1..Len(proof.items) |->
                                    HexEncode(proof.items[i])]]]
    /\ loc' = [loc EXCEPT ![r] = NoLoc]
    /\ owner' = NoOwner
    /\ pc' = [pc EXCEPT ![r] = "done"]
    /\ UNCHANGED <<store, mmr_size, req, started, log, snapshot>>

Next ==
    \E r \in Req :
        \/ StartSubmit(r)
        \/ Fingerprint(r)
        \/ Sign(r)
        \/ SubmitLock(r)
        \/ AppendPush(r)
        \/ AppendSize(r)
        \/ AppendRoot(r)
        \/ StartAudit(r)
        \/ AuditLock(r)
        \/ AuditNew(r)
        \/ AuditGenProof(r)

Spec == Init /\ [][Next]_vars

\* ------------------------------------------------------------ restart
\* The process ends and is started again: the server's state is built anew by
\* EvidenceStore::new(), a MemStore::default() and mmr_size 0; nothing of the
\* previous run is read back.  The requests in flight are gone with it.
Restart ==
    /\ store' = EmptyStore
    /\ mmr_size' = 0
    /\ owner' = NoOwner
    /\ pc' = [r \in Req |-> "idle"]
    /\ req' = [r \in Req |-> NoReq]
    /\ loc' = [r \in Req |-> NoLoc]
    /\ result' = [r \in Req |-> NoResult]
    /\ log' = <<>>
    /\ snapshot' = [size |-> 0, store |-> EmptyStore]
    /\ UNCHANGED started

NextRestart == Next \/ Restart

SpecRestart == Init /\ [][NextRestart]_vars

\* ------------------------------------------------------------ main
\* The command-line binary (main.rs): each run builds one record, with the
\* confidence the AI response gives as an f32, signs it, appends it to a ledger
\* of its own and asks for the proof of its leaf.  Slot r is the r-th run; a
\* run that returned Err stands at "failed".
MainExit(r) ==
    /\ pc' = [pc EXCEPT ![r] = "failed"]
    /\ UNCHANGED <<store, mmr_size, owner, loc, result, log, snapshot>>

\* main, lines 22-53: fingerprints, the AI response, the record
MainStart(r) ==
    /\ pc[r] = "idle"
    /\ \A q \in Req : q < r => pc[q] \in {"done", "failed"}
    /\ started < MaxRequests
    /\ started' = started + 1
    /\ \E e \in Evidence, read_ok \in BOOLEAN :
         /\ req' = [req EXCEPT ![r] = [NoReq EXCEPT !.kind = "main", !.ev = e]]
         /\ IF read_ok
            THEN /\ pc' = [pc EXCEPT ![r] = "main_sign"]
                 /\ UNCHANGED <<store, mmr_size, owner, loc, result, log, snapshot>>
            ELSE MainExit(r)

\* main, lines 59-79: signer.sign(&mock_evidence)?, which serializes the
\* record and signs the bytes
MainSign(r) ==
    /\ pc[r] = "main_sign"
    /\ \E sign_ok \in BOOLEAN :
         IF sign_ok
         THEN /\ loc' = [loc EXCEPT ![r].payload = ToVec(req[r].ev)]
              /\ pc' = [pc EXCEPT ![r] = "main_append"]
              /\ UNCHANGED <<store, mmr_size, owner, result, log, snapshot>>
         ELSE MainExit(r)
    /\ UNCHANGED <<req, started>>

\* main, lines 83-87: EvidenceStore::new(), store.append(&mock_evidence)?
MainAppend(r) ==
    /\ pc[r] = "main_append"
    /\ LET a == AppendCall(0, EmptyStore, req[r].ev)
       IN /\ store' = EmptyStore
          /\ mmr_size' = a.size
          /\ snapshot' = [size |-> a.size, store |-> EmptyStore]
          /\ log' = Append(log, LogEntry(r, a.ok, IF a.ok THEN "ok" ELSE "push",
                                         a.pos, a.root, 0 .. (a.size - 1), a.size))
          /\ IF a.ok
             THEN /\ result' = [result EXCEPT ![r] =
                                  [NoResult EXCEPT !.root_hash = HexEncode(a.root),
                                                   !.leaf_pos = a.pos]]
                  /\ pc' = [pc EXCEPT ![r] = "main_proof"]
             ELSE /\ pc' = [pc EXCEPT ![r] = "failed"]
                  /\ UNCHANGED result
    /\ UNCHANGED <<owner, req, loc, started>>

\* main, lines 89-93: store.get_proof(vec![leaf_pos])?
MainProof(r) ==
    /\ pc[r] = "main_proof"
    /\ LET proof == GetProof(mmr_size, store, <<result[r].leaf_pos>>)
       IN IF proof.ok
          THEN /\ result' = [result EXCEPT ![r].status = 200,
                                           ![r].proof_hex =
                                               [i \in 1..Len(proof.items) |->
                                                   HexEncode(proof.items[i])]]
               /\ pc' = [pc EXCEPT ![r] = "done"]
          ELSE /\ pc' = [pc EXCEPT ![r] = "failed"]
               /\ UNCHANGED result
    /\ UNCHANGED <<store, mmr_size, owner, req, loc, started, log, snapshot>>

NextMain ==
    \E r \in Req :
        \/ MainStart(r)
        \/ MainSign(r)
        \/ MainAppend(r)
        \/ MainProof(r)

SpecMain == Init /\ [][NextMain]_vars

\* ------------------------------------------------------------ scheduling
\* The tokio runtime keeps polling every task that can make progress, and
\* the Mutex wakes a waiter when its guard is dropped: a handler whose next
\* step stays possible takes it.  Requests arrive or do not: no fairness on
\* StartSubmit and StartAudit.
HandlerStep(r) ==
    \/ Fingerprint(r)
    \/ Sign(r)
    \/ SubmitLock(r)
    \/ AppendPush(r)
    \/ AppendSize(r)
    \/ AppendRoot(r)
    \/ AuditLock(r)
    \/ AuditNew(r)
    \/ AuditGenProof(r)

Fairness == \A r \in Req : WF_vars(HandlerStep(r))

SpecFair == Spec /\ Fairness

\* ============================================================ properties
InAppend(r) == pc[r] \in {"append_push", "append_size", "append_root"}
InRead(r) == pc[r] \in {"audit_new", "audit_gen"}

\* no append call is in progress: the states a get_proof call can run in
AtRest == \A r \in Req : ~InAppend(r)

\* the append calls that returned Ok, and those whose record serialized
Appended == {i \in 1..Len(log) : log[i].ok}
RECURSIVE ValidOf(_)
ValidOf(l) ==
    IF l = <<>> THEN <<>>
    ELSE IF l[1].step = "serialize" THEN ValidOf(Tail(l))
    ELSE <<l[1]>> \o ValidOf(Tail(l))
Valid == ValidOf(log)

\* the root returned by the most recent successful append
CurrentRoot == log[CHOOSE i \in Appended : \A j \in Appended : j <= i].root

\* a finished audit request and its answer
AuditDone(r) == req[r].kind = "audit" /\ pc[r] = "done"

\* C1: for every sequence of leaves handed to append, each of them is in the
\* ledger and its proof, as get_proof returns it for the leaf's position,
\* verifies against the leaf's digest, that position and the root of the most
\* recent append.
C1_ProofRoundTrip ==
    AtRest => \A i \in 1..Len(Valid) :
        /\ Valid[i].ok
        /\ LET g == GetProof(mmr_size, store, <<Valid[i].pos>>)
           IN /\ g.ok
              /\ VerifyProof(g.items, mmr_size, Valid[i].leaf, Valid[i].pos, CurrentRoot)

\* C2: every position below size has a hash in the node store (nodes are
\* written to the store before size is advanced).
C2_NodesBeforeSize == \A p \in 0..(mmr_size - 1) : p \in DOMAIN store

\* C3: an append call that returned an error left mmr_size as it found it.
C3_FailedAppendKeepsSize ==
    \A i \in 1..Len(log) : ~log[i].ok => log[i].post = log[i].pre

C3_Witness ==
    \E i, j \in 1..Len(log) :
        /\ i < j
        /\ log[i].ok
        /\ ~log[j].ok /\ log[j].step = "push"
        /\ mmr_size = log[j].pre

\* C4: at most one request is inside append, and it holds the lock; the size
\* an append works from is not changed under it by another append; successful
\* appends return distinct leaf positions.
C4_AppendsExclusive ==
    /\ Cardinality({r \in Req : InAppend(r)}) <= 1
    /\ \A r \in Req : InAppend(r) =>
          /\ owner = r
          /\ pc[r] \in {"append_push", "append_size"} => mmr_size = loc[r].pre
          /\ pc[r] = "append_root" => mmr_size = loc[r].mmr.mmr_size
    /\ \A i, j \in Appended : i # j => log[i].pos # log[j].pos

C4_Witness ==
    \E r1, r2 \in Req :
        /\ r1 # r2
        /\ pc[r1] = "append_size"
        /\ pc[r2] = "lock"

\* C5: a proof request inside its read section sees the size and the store
\* exactly as the last append call left them, no append is in progress, and
\* the size its handle took is still the ledger's size.
C5_NoTornRead ==
    \A r \in Req : InRead(r) =>
        /\ AtRest
        /\ mmr_size = snapshot.size /\ store = snapshot.store
        /\ pc[r] = "audit_gen" => loc[r].mmr.mmr_size = mmr_size

C5_Witness ==
    \E r1, r2 \in Req :
        /\ pc[r1] = "audit_gen"
        /\ pc[r2] = "lock"

C11_RestartIdempotence ==
    [][(Restart /\ AtRest) =>
          /\ mmr_size' = mmr_size
          /\ Appended # {} => GetRoot(MMRNew(mmr_size'), store') = Some(CurrentRoot)
          /\ \A p \in 0..MaxPos :
                GetProof(mmr_size', store', <<p>>) = GetProof(mmr_size, store, <<p>>)]_vars

\* ---- the ledger the specification describes, built from a leaf sequence
RECURSIVE PopCount(_)
PopCount(n) == IF n = 0 THEN 0 ELSE (n % 2) + PopCount(n \div 2)

\* the largest power of two not above n (n >= 1)
TopBit(n) == Pow2(BitLength(n) - 1)

\* position of the leaf with 0-based index: 2 * index - popcount(index)
RefLeafPos(index) == 2 * index - PopCount(index)

\* root of the perfect tree over a leaf sequence whose length is a power of two
RECURSIVE PerfectRoot(_)
PerfectRoot(ls) ==
    IF Len(ls) = 1 THEN ls[1]
    ELSE Merge(PerfectRoot(SubSeq(ls, 1, Len(ls) \div 2)),
               PerfectRoot(SubSeq(ls, Len(ls) \div 2 + 1, Len(ls))))

\* the peaks over a leaf sequence, leftmost (tallest) first
RECURSIVE RefPeaks(_)
RefPeaks(ls) ==
    IF ls = <<>> THEN <<>>
    ELSE <<PerfectRoot(SubSeq(ls, 1, TopBit(Len(ls))))>>
         \o RefPeaks(SubSeq(ls, TopBit(Len(ls)) + 1, Len(ls)))

\* merge(p_1, merge(p_2, ... merge(p_{k-1}, p_k)))
RECURSIVE RightFold(_)
RightFold(ps) == IF Len(ps) = 1 THEN ps[1] ELSE Merge(ps[1], RightFold(Tail(ps)))

\* height of the peak holding the i-th of n leaves (i from 1)
RECURSIVE RefPeakHeight(_, _)
RefPeakHeight(i, n) ==
    IF i <= TopBit(n) THEN BitLength(n) - 1
    ELSE RefPeakHeight(i - TopBit(n), n - TopBit(n))

ValidLeaves(k) == [i \in 1..k |-> Valid[i].leaf]

\* C7: from an empty ledger, appending L0, L1, L2 succeeds each time, with
\* sizes 1, 3, 4, leaf positions 0, 1, 3, P01 = merge(L0, L1) at position 2,
\* and the third root equal to merge(P01, L2).
C7_ThreeLeafScenario ==
    /\ Len(Valid) >= 1 =>
          Valid[1].ok /\ Valid[1].pos = 0 /\ Valid[1].post = 1
    /\ Len(Valid) >= 2 =>
          Valid[2].ok /\ Valid[2].pos = 1 /\ Valid[2].post = 3 /\ Valid[2].nodes = {1, 2}
    /\ Len(Valid) >= 3 =>
          /\ Valid[3].ok /\ Valid[3].pos = 3 /\ Valid[3].post = 4
          /\ Valid[3].root = Merge(Merge(Valid[1].leaf, Valid[2].leaf), Valid[3].leaf)

\* C8: the root every append returns is the peaks' right fold: the only peak's
\* hash when there is one, merge(p_1, merge(p_2, ...)) when there are several.
C8_RootBagging ==
    \A i \in 1..Len(Valid) :
        /\ Valid[i].ok
        /\ Valid[i].root = RightFold(RefPeaks(ValidLeaves(i)))

\* C9: the proof of a single leaf holds one sibling per level up to its peak
\* and then the other peaks, so height + (peaks - 1) items; after L0, L1, L2
\* the proof of position 0 is [L1, L2].
C9_ProofContents ==
    AtRest => \A i \in 1..Len(Valid) :
        LET n == Len(Valid)
            g == GetProof(mmr_size, store, <<RefLeafPos(i - 1)>>)
        IN /\ g.ok
           /\ Len(g.items) = RefPeakHeight(i, n) + PopCount(n) - 1
           /\ (n = 3 /\ i = 1) => g.items = <<Valid[2].leaf, Valid[3].leaf>>

\* C10: get_proof returns an error whenever a requested position is at or
\* beyond size or is an internal node's, on an empty ledger for any position,
\* and returns a proof only for existing leaf positions.
PosLists == {<<>>} \cup {<<p>> : p \in 0..MaxPos}
                   \cup {<<p, q>> : p \in 0..MaxPos, q \in 0..MaxPos}
LeafPositions == {log[i].pos : i \in Appended}

C10_InvalidProofRejected ==
    /\ AtRest => \A pl \in PosLists :
          LET g == GetProof(mmr_size, store, pl)
          IN /\ (\E k \in 1..Len(pl) : pl[k] >= mmr_size \/ PosHeightInTree(pl[k]) > 0)
                   => ~g.ok
             /\ g.ok => \A k \in 1..Len(pl) : pl[k] \in LeafPositions
    /\ \A r \in Req : (AuditDone(r) /\ result[r].status = 200)
                         => req[r].pos \in LeafPositions

C10_Witness ==
    \E r \in Req :
        /\ AuditDone(r)
        /\ result[r].status = 400
        /\ Appended # {}
        /\ req[r].pos >= mmr_size
        /\ PosHeightInTree(req[r].pos) > 0

\* C12: from an empty ledger every append of a valid record succeeds, the
\* same record again included, and k appends give k leaves at k distinct,
\* strictly increasing positions.
C12_RepeatedAppendsSucceed ==
    /\ \A i \in 1..Len(Valid) :
          /\ Valid[i].ok
          /\ \A j \in 1..(i - 1) : Valid[j].pos < Valid[i].pos
    /\ AtRest => Cardinality(LeafPositions) = Len(Valid)

\* C13: for two distinct leaves A and B, the root after appending A then B to
\* an empty ledger differs from the root after appending B then A, and
\* merge(A, B) differs from merge(B, A).
C13_RootOrderSensitive ==
    (Len(Valid) >= 2 /\ Valid[1].leaf # Valid[2].leaf) =>
        LET A == Valid[1].leaf
            B == Valid[2].leaf
            b1 == AppendLeaf(0, EmptyStore, B)
            b2 == AppendLeaf(b1.size, EmptyStore, A)
        IN /\ Merge(A, B) # Merge(B, A)
           /\ Valid[1].ok /\ Valid[2].ok
           /\ b1.ok /\ b2.ok
           /\ Valid[2].root # b2.root

\* C14: the proof for positions {0, 1} holds no digest that the two targets
\* give (L0, L1, their parent P01) and no digest twice: it is empty on a
\* ledger of two leaves and exactly [L2] on a ledger of three.
C14_BatchedProofNoDuplicates ==
    (AtRest /\ Len(Valid) >= 2) =>
        LET g == GetProof(mmr_size, store, <<0, 1>>)
            L0 == Valid[1].leaf
            L1 == Valid[2].leaf
        IN /\ g.ok
           /\ \A k \in 1..Len(g.items) : g.items[k] \notin {L0, L1, Merge(L0, L1)}
           /\ \A k, l \in 1..Len(g.items) : k # l => g.items[k] # g.items[l]
           /\ Len(Valid) = 2 => g.items = <<>>
           /\ Len(Valid) = 3 => g.items = <<Valid[3].leaf>>

\* C15: a record that differs from an appended record has a different leaf
\* digest, and the appended leaf's proof, verified with that other digest
\* against the root the append returned, is rejected.
C15_TamperSensitive ==
    \A r \in Req : pc[r] = "done" =>
        LET done == log[Len(log)]
            g == GetProof(mmr_size, store, <<done.pos>>)
        IN \A e \in Evidence : e # done.ev =>
              LET altered == Blake3Hash(ToVec(e))
              IN /\ altered # done.leaf
                 /\ ~VerifyProof(g.items, mmr_size, altered, done.pos, done.root)

\* C16: the bytes signed and hashed are a function of the record alone: the
\* same record gives the same bytes in every run, and two records that differ
\* in a field give different bytes.
Encoded(r) == req[r].kind = "main" /\ loc[r].payload # <<>>

C16_EncodingInjective ==
    \A r1, r2 \in Req : (Encoded(r1) /\ Encoded(r2)) =>
        /\ req[r1].ev = req[r2].ev => loc[r1].payload = loc[r2].payload
        /\ req[r1].ev # req[r2].ev => loc[r1].payload # loc[r2].payload

\* C17: a successful append made when the ledger holds n leaves creates the
\* leaf and one merge node per trailing 1-bit of n: size grows by
\* 1 + trailing_ones(n).
RECURSIVE TrailingOnes(_)
TrailingOnes(n) == IF n % 2 = 1 THEN 1 + TrailingOnes(n \div 2) ELSE 0

LeavesBefore(i) == Cardinality({j \in Appended : j < i})

C19_GetProofReadOnly ==
    [][(\E r \in Req : AuditNew(r) \/ AuditGenProof(r))
          => (mmr_size' = mmr_size /\ store' = store)]_vars

C19_Witness ==
    \E r \in Req :
        /\ AuditDone(r)
        /\ result[r].status = 200
        /\ mmr_size = 1
        /\ store = snapshot.store

\* C20 as stated: proof requests run concurrently with each other; a proof
\* request waiting for the ledger is let in whenever no append is in flight.
C20_ReadsConcurrent ==
    \A r \in Req : (pc[r] = "audit_lock" /\ AtRest) => ENABLED AuditLock(r)

\* C20 as amended: proof requests exclude each other as appends do: while
\* one is inside its read section no other request is inside the ledger, and
\* a proof request waiting for the lock is kept waiting.
C20_ReadsExclusive ==
    \A r1, r2 \in Req : (InRead(r1) /\ r1 # r2) =>
        /\ ~InRead(r2)
        /\ ~InAppend(r2)
        /\ pc[r2] = "audit_lock" => ~ENABLED AuditLock(r2)

C20_Witness ==
    \E r1, r2 \in Req :
        /\ pc[r1] = "audit_new"
        /\ pc[r2] = "audit_lock"

\* C21: a submit request that is fingerprinting or signing does not hold the
\* ledger lock, and its step, failing or not, leaves the lock, size and the
\* store as they were; size and the store change only in a step of a request
\* that is inside append and holds the lock.
C21_PreLockFailure ==
    [][/\ \A r \in Req : (Fingerprint(r) \/ Sign(r)) =>
             /\ owner # r /\ owner' = owner
             /\ mmr_size' = mmr_size /\ store' = store
       /\ (mmr_size' # mmr_size \/ store' # store) =>
             \E r \in Req : InAppend(r) /\ owner = r]_vars

C21_Witness ==
    \E r1, r2 \in Req :
        /\ req[r1].kind = "submit" /\ pc[r1] = "done" /\ result[r1].status = 500
        /\ req[r2].kind = "submit" /\ pc[r2] = "done" /\ result[r2].status = 200
        /\ Len(log) = 1
        /\ mmr_size = 1

\* C22: a request that has returned, with a response or an error, does not
\* hold the lock; a request that holds the lock gives it up; a request
\* waiting for the lock comes to hold it.
Waiting(r) == pc[r] \in {"lock", "audit_lock"}

C22_LockReleased ==
    /\ [](\A r \in Req : Free(r) => owner # r)
    /\ \A r \in Req : (owner = r) ~> (owner # r)
    /\ \A r \in Req : Waiting(r) ~> (owner = r)

C22_Witness ==
    \E r1, r2 \in Req :
        /\ pc[r1] = "audit_gen" /\ owner = r1
        /\ ~GetProof(loc[r1].mmr.mmr_size, store, <<req[r1].pos>>).ok
        /\ Waiting(r2)

====
